---------------------------- MODULE Spec2Model ----------------------------
(***************************************************************************)
(* Model of aerialviewgenerator/aerialview/__init__.py (class AerialView): *)
(* the projection arithmetic, the tile cache (_get_tile) and the tile grid *)
(* assembly of getAerialImage with its ThreadPoolExecutor fan-out/fan-in.  *)
(*                                                                         *)
(* Arithmetic.  The source computes in IEEE doubles; the model computes in *)
(* exact integers: lengths in decimetres, sqrt(2) as Sqrt2Num/Sqrt2Den,    *)
(* tile positions and canvas offsets in pixels.  Trigonometric values are  *)
(* tabulated for the angles the model draws.                               *)
(***************************************************************************)
EXTENDS Integers, Sequences, FiniteSets, TLC

(***************************************************************************)
(* Program constants.                                                      *)
(***************************************************************************)
tile_size == 256            \* self.tile_size
PoolWorkers == 5            \* ThreadPoolExecutor(5)
MinExtraTiles == 5          \* extra_tiles if extra_tiles > 5 else 5
DefaultMaxRetries == 3      \* __init__(max_retries=3)
DefaultZoom == 20           \* __init__(zoom=20)
CircumferenceDm == 400750167 \* C = 2*pi*R, R = 6378137 m, in decimetres
Sqrt2Num == 14142           \* math.sqrt(2) = Sqrt2Num / Sqrt2Den
Sqrt2Den == 10000

(***************************************************************************)
(* Integer helpers (Python's math.floor, math.ceil, int, abs, %).          *)
(***************************************************************************)
Abs(a) == IF a < 0 THEN -a ELSE a

Sign(a) == IF a < 0 THEN -1 ELSE IF a > 0 THEN 1 ELSE 0

\* floor(a / b) for any a and any b # 0
FloorDiv(a, b) ==
    LET n == IF b < 0 THEN -a ELSE a
        d == Abs(b)
    IN  IF n >= 0 THEN n \div d ELSE -((-n + d - 1) \div d)

\* ceil(a / b) for any a and any b # 0
CeilDiv(a, b) == -FloorDiv(-a, b)

\* int(a / b): truncation toward zero
TruncDiv(a, b) == Sign(a) * Sign(b) * (Abs(a) \div Abs(b))

RECURSIVE Pow2(_)
Pow2(k) == IF k = 0 THEN 1 ELSE 2 * Pow2(k - 1)

Max(a, b) == IF a >= b THEN a ELSE b

(***************************************************************************)
(* Projection.  A request is a record                                      *)
(*   [lat, lon, bearing, altitude, fov, outw, outh]                        *)
(* lat, bearing, fov in degrees, altitude in metres, (outw, outh) the      *)
(* output_size.  lon is the longitude counted in steps of 360/2^WorldBits  *)
(* degrees east of -180, so that _deg2num is exact in pixels.              *)
(***************************************************************************)
TrigDen == 10000            \* denominator of the tabulated tan and cos values
WorldBits == 28             \* lon steps per turn = 2^28 = pixels per world at zoom 20

\* math.tan(math.radians(fov/2)) * TrigDen
TanHalfFov(fov) ==
    CASE fov = -90 -> -10000
      [] fov = 0   -> 0
      [] fov = 60  -> 5774
      [] fov = 90  -> 10000
      [] fov = 270 -> -10000

\* math.cos(math.radians(lat)) * TrigDen
CosLat(lat) ==
    CASE lat = 0   -> 10000
      [] lat = 60  -> 5000
      [] lat = 180 -> -10000

\* (1.0 - math.asinh(math.tan(lat_rad)) / math.pi) / 2.0, times 2^WorldBits
MercatorY(lat) ==
    CASE lat = 0   -> 134217728
      [] lat = 60  -> 77953560
      [] lat = 180 -> 134217728

\* squareAtCamera(altitude, fov) = 2*altitude*tan(fov/2), in decimetres
squareAtCamera(altitude, fov) ==
    FloorDiv(2 * altitude * 10 * TanHalfFov(fov), TrigDen)

\* squareAtZoomlevel(lat, z) = C*cos(lat)/2**z, in decimetres
squareAtZoomlevel(lat, z) ==
    FloorDiv(FloorDiv(CircumferenceDm, Pow2(z)) * CosLat(lat), TrigDen)

\* _deg2num(lat, lon, zoom), as <<xtile, ytile>> in pixels (tile units * 256)
deg2num(lat, lon, zoom) ==
    LET shift == WorldBits - (zoom + 8)
    IN  << FloorDiv(lon, Pow2(shift)), FloorDiv(MercatorY(lat), Pow2(shift)) >>

(***************************************************************************)
(* getAerialImage, lines 31-60 and 80-83: the geometry of one request.     *)
(***************************************************************************)
\* ratio = smin/szoom with smin = scamera*sqrt(2), as <<numerator, denominator>>
Ratio(r, zoom) ==
    << squareAtCamera(r.altitude, r.fov) * Sqrt2Num,
       squareAtZoomlevel(r.lat, zoom) * Sqrt2Den >>

\* math.ceil((math.ceil(ratio)-1)/2)
RawExtraTiles(ratio) == CeilDiv(CeilDiv(ratio[1], ratio[2]) - 1, 2)

ExtraTilesNoFloor(ratio) == RawExtraTiles(ratio)

\* extra_tiles = extra_tiles if extra_tiles > 5 else 5
ExtraTiles(ratio) ==
    LET raw == RawExtraTiles(ratio)
    IN  IF raw > MinExtraTiles THEN raw ELSE MinExtraTiles

Geometry(r, zoom) ==
    LET scamera == squareAtCamera(r.altitude, r.fov)
        szoom   == squareAtZoomlevel(r.lat, zoom)
        ratio   == Ratio(r, zoom)
        extra   == ExtraTiles(ratio)
        xy      == deg2num(r.lat, r.lon, zoom)
        xint    == TruncDiv(xy[1], tile_size)        \* int(xtile)
        yint    == TruncDiv(xy[2], tile_size)        \* int(ytile)
    IN  [ scamera     |-> scamera,
          szoom       |-> szoom,
          ratio       |-> ratio,
          extra_tiles |-> extra,
          xtile       |-> xy[1],
          ytile       |-> xy[2],
          \* (extra_tiles + (xtile % 1)) * self.tile_size
          xcentre     |-> extra * tile_size + (xy[1] % tile_size),
          ycentre     |-> extra * tile_size + (xy[2] % tile_size),
          xmin        |-> xint - extra,
          ymin        |-> yint - extra,
          xmax        |-> xint + extra,
          ymax        |-> yint + extra,
          \* d = math.ceil(scamera_px/2), scamera_px = scamera/(szoom/tile_size)
          d           |-> CeilDiv(scamera * tile_size, 2 * szoom) ]

\* tiles = tuple(product(range(xmin, xmax), range(ymin, ymax))), indexed from 0
NumTilesInclusive(g) == (g.xmax - g.xmin + 1) * (g.ymax - g.ymin + 1)

NumTiles(g) == (g.xmax - g.xmin) * (g.ymax - g.ymin)

TileAt(g, idx) ==
    LET ny == g.ymax - g.ymin
    IN  << g.xmin + (idx \div ny), g.ymin + (idx % ny) >>

\* bbox = (floor(xmin), floor(ymin), ceil(xmax), ceil(ymax))
BBox(g) == << g.xmin, g.ymin, g.xmax, g.ymax >>

(***************************************************************************)
(* URLs and cache keys.  A URL is the base URL template formatted with a   *)
(* tile, kept as the record [x, y, z]; UrlChars gives its characters.      *)
(***************************************************************************)
None == [ none |-> TRUE ]

Html == [ html |-> TRUE ]

\* baseurl: "t/{z}/{x}/{y}.png"
BaseUrl == << "t", "/", "{z}", "/", "{x}", "/", "{y}", ".", "p", "n", "g" >>

DigitChars == << "0", "1", "2", "3", "4", "5", "6", "7", "8", "9" >>

RECURSIVE NatStr(_)
NatStr(n) ==
    IF n < 10 THEN << DigitChars[n + 1] >>
    ELSE NatStr(n \div 10) \o << DigitChars[(n % 10) + 1] >>

\* str(n) for an int
IntStr(n) == IF n < 0 THEN << "-" >> \o NatStr(-n) ELSE NatStr(n)

RECURSIVE FormatFrom(_, _, _)
FormatFrom(tpl, k, u) ==
    IF k > Len(tpl) THEN << >>
    ELSE (CASE tpl[k] = "{x}" -> IntStr(u.x)
            [] tpl[k] = "{y}" -> IntStr(u.y)
            [] tpl[k] = "{z}" -> IntStr(u.z)
            [] OTHER -> << tpl[k] >>) \o FormatFrom(tpl, k + 1, u)

\* base URLs with a space in them: "t /{z}/{x}/{y}.png", "t/{z}/{x}/{y}.png "
BaseUrlSpaced == << "t", " " >> \o Tail(BaseUrl)

BaseUrlTrailing == BaseUrl \o << " " >>

\* self.baseurl.format(x=x, y=y, z=self.zoom); a URL record made for another
\* base URL than BaseUrl carries it as tpl
UrlChars(u) ==
    FormatFrom(IF "tpl" \in DOMAIN u THEN u.tpl ELSE BaseUrl, 1, u)

Letters ==
    { "a", "b", "c", "d", "e", "f", "g", "h", "i", "j", "k", "l", "m",
      "n", "o", "p", "q", "r", "s", "t", "u", "v", "w", "x", "y", "z" }

\* c.isalpha() or c.isdigit() or c == ' '
KeepChar(c) == c \in Letters \/ c \in { DigitChars[i] : i \in 1..10 } \/ c = " "

RECURSIVE RStrip(_)
RStrip(s) ==
    IF Len(s) > 0 /\ s[Len(s)] = " " THEN RStrip(SubSeq(s, 1, Len(s) - 1)) ELSE s

IsAlnum(c) == c \in Letters \/ c \in { DigitChars[i] : i \in 1..10 }

KeepAlnumOnly(s) == SelectSeq(s, IsAlnum)

\* url2filename = "".join([c for c in url if ...]).rstrip()
Url2Filename(s) == RStrip(SelectSeq(s, KeepChar))

\* tile_path = path.join(self.cache_dir, url2filename + ".png")
TilePath(u) == Url2Filename(UrlChars(u))

(***************************************************************************)
(* The tile server.  A response is a transport exception or a status with  *)
(* a body; an image is [src, size]: src the tile the server drew it for,   *)
(* size its edge in pixels.  A world fixes what the server answers:        *)
(*   [default, special, skind, big]: kind skind for the tiles in special,  *)
(*   kind default for the others, 2*tile_size images for the tiles in big; *)
(* kind "garbage" is a 200 response whose body is no image.                *)
(* the world Flaky answers every GET with any response.                    *)
(***************************************************************************)
Flaky == [ flaky |-> TRUE ]

Kinds == { "ok", "notfound", "empty", "error", "garbage", "unreachable" }

Image(u, size) == [ src |-> << u.x, u.y >>, size |-> size ]

ResponseOf(kind, u, size) ==
    CASE kind = "unreachable" -> [ exc |-> TRUE,  status |-> 0,   content |-> None ]
      [] kind = "notfound"    -> [ exc |-> FALSE, status |-> 404, content |-> Html ]
      [] kind = "empty"       -> [ exc |-> FALSE, status |-> 200, content |-> None ]
      [] kind = "error"       -> [ exc |-> FALSE, status |-> 500, content |-> Html ]
      [] kind = "garbage"     -> [ exc |-> FALSE, status |-> 200, content |-> Html ]
      [] kind = "ok"          -> [ exc |-> FALSE, status |-> 200, content |-> Image(u, size) ]

Responses(world, u) ==
    IF "flaky" \in DOMAIN world
    THEN { ResponseOf(k, u, tile_size) : k \in Kinds }
    ELSE LET kind == IF << u.x, u.y >> \in world.special THEN world.skind
                     ELSE world.default
             size == IF << u.x, u.y >> \in world.big THEN 2 * tile_size
                     ELSE tile_size
         IN  { ResponseOf(kind, u, size) }

(***************************************************************************)
(* _get_tile(url), lines 129-154.  A call is                               *)
(*   [url, pc, retry, gets, res, ret]                                      *)
(* pc: "hit"  the cache check found the file, Image.open'ed in ret;        *)
(*     "get"  cache miss, in the retry loop;                               *)
(*     "done" returned or raised: ret is [raise |-> exception] or an image *)
(* res is the response session.get returned (None before), gets counts the *)
(* session.get calls of this call.                                         *)
(***************************************************************************)
Raise(e) == [ raise |-> e ]

IsRaise(v) == "raise" \in DOMAIN v

CacheCheckNever(u, files) == FALSE

\* path.exists(tile_path)
CacheExists(u, files) == TilePath(u) \in DOMAIN files

\* lines 131-136: the cache check, and on a miss retry = self.max_retries
GetTileBegin(u, files, max_retries) ==
    IF CacheExists(u, files)
    THEN [ url |-> u, pc |-> "hit", retry |-> 0, gets |-> 0, res |-> None,
           ret |-> files[TilePath(u)] ]
    ELSE [ url |-> u, pc |-> "get", retry |-> max_retries, gets |-> 0,
           res |-> None, ret |-> None ]

RetryExhaustedLate(retry) == retry < -1

\* if not retry
RetryExhausted(retry) == retry = 0

NotFoundStatusOnly(res) == res.status = 404

\* (res.status_code == 404) or (not res.content)
IsNotFound(res) == res.status = 404 \/ res.content = None

\* Bound of the exploration.  A call whose retry counter has passed zero
\* never ends (retry only decreases, and the loop ends at retry = 0): its
\* GETs are counted up to MaxGets, and the values of retry below -MaxGets,
\* all of them nonzero like -1, are identified with -1
MaxGets == 6

\* retry -= 1
Decrement(retry) == IF retry - 1 < -MaxGets THEN -1 ELSE retry - 1

\* one more session.get
CountGet(gets) == IF gets < MaxGets THEN gets + 1 ELSE gets

HttpErrorNever(res) == FALSE

\* res.raise_for_status() raises
IsHttpError(res) == res.status >= 400

\* Image.open(BytesIO(res.content)) identifies an image
IsImage(content) == "src" \in DOMAIN content

SaveTileReplacing(fs, u, img) == TilePath(u) :> img

\* img.save(tile_path): the file is created or overwritten, the others stay
SaveTile(fs, u, img) == (TilePath(u) :> img) @@ fs

\* lines 137-154: one session.get and what follows it; gives the call after
\* the step and the cache directory after the step
GetTileStep(c, files, res) ==
    IF res.exc
    THEN \* except Exception: retry -= 1; if not retry: raise
         LET r == Decrement(c.retry)
         IN  [ call  |-> IF RetryExhausted(r)
                         THEN [ c EXCEPT !.pc = "done", !.retry = r,
                                         !.gets = CountGet(@),
                                         !.ret = Raise("ConnectionError") ]
                         ELSE [ c EXCEPT !.retry = r, !.gets = CountGet(@) ],
               files |-> files ]
    ELSE IF IsNotFound(res)
    THEN [ call  |-> [ c EXCEPT !.pc = "done", !.gets = CountGet(@), !.res = res,
                                !.ret = Raise("ValueError") ],
           files |-> files ]
    ELSE IF IsHttpError(res)
    THEN \* res.raise_for_status()
         [ call  |-> [ c EXCEPT !.pc = "done", !.gets = CountGet(@), !.res = res,
                                !.ret = Raise("HTTPError") ],
           files |-> files ]
    ELSE IF ~IsImage(res.content)
    THEN \* Image.open(BytesIO(res.content)) raises
         [ call  |-> [ c EXCEPT !.pc = "done", !.gets = CountGet(@), !.res = res,
                                !.ret = Raise("UnidentifiedImageError") ],
           files |-> files ]
    ELSE \* img = Image.open(BytesIO(res.content)); img.save(tile_path)
         [ call  |-> [ c EXCEPT !.pc = "done", !.gets = CountGet(@), !.res = res,
                                !.ret = res.content ],
           files |-> SaveTile(files, c.url, res.content) ]

(***************************************************************************)
(* Images.  A canvas is [w, h, px]: w, h in pixels and px the content of   *)
(* each tile_size x tile_size block <<cx, cy>> of it: Blank, or            *)
(* [src, bx, by], block (bx, by) of the image the server drew for src.     *)
(***************************************************************************)
Blank == [ blank |-> TRUE ]

\* Image.new(mode, (w, h))
NewImage(w, h) ==
    [ w |-> w, h |-> h,
      px |-> [ c \in (0..(w \div tile_size) - 1) \X (0..(h \div tile_size) - 1)
                 |-> Blank ] ]

PasteTransposed(full_img, img, x0, y0) ==
    LET cx0 == y0 \div tile_size
        cy0 == x0 \div tile_size
        n   == img.size \div tile_size
    IN  [ full_img EXCEPT !.px =
            [ c \in DOMAIN full_img.px |->
                IF /\ c[1] >= cx0 /\ c[1] < cx0 + n
                   /\ c[2] >= cy0 /\ c[2] < cy0 + n
                THEN [ src |-> img.src, bx |-> c[1] - cx0, by |-> c[2] - cy0 ]
                ELSE full_img.px[c] ] ]

\* full_img.paste(img, (x0, y0)): the part of img inside full_img is copied
Paste(full_img, img, x0, y0) ==
    LET cx0 == x0 \div tile_size
        cy0 == y0 \div tile_size
        n   == img.size \div tile_size
    IN  [ full_img EXCEPT !.px =
            [ c \in DOMAIN full_img.px |->
                IF /\ c[1] >= cx0 /\ c[1] < cx0 + n
                   /\ c[2] >= cy0 /\ c[2] < cy0 + n
                THEN [ src |-> img.src, bx |-> c[1] - cx0, by |-> c[2] - cy0 ]
                ELSE full_img.px[c] ] ]

PasteAtOrigin(full_img, img, xy, bbox) ==
    IF img = None THEN full_img
    ELSE LET base == IF full_img = None
                     THEN NewImage(img.size * (bbox[3] - bbox[1]),
                                   img.size * (bbox[4] - bbox[2]))
                     ELSE full_img
         IN  Paste(base, img, 0, 0)

\* _paste_tile(full_img, base_size, img, xy, bbox), lines 157-174
PasteTile(full_img, img, xy, bbox) ==
    IF img = None THEN full_img
    ELSE LET size == img.size
             base == IF full_img = None
                     THEN NewImage(size * (bbox[3] - bbox[1]),
                                   size * (bbox[4] - bbox[2]))
                     ELSE full_img
             dx   == Abs(xy[1] - bbox[1])
             dy   == Abs(xy[2] - bbox[2])
         IN  Paste(base, img, size * dx, size * dy)

(***************************************************************************)
(* State.                                                                  *)
(***************************************************************************)
VARIABLES
    config,     \* [max_retries, zoom]: self.max_retries, self.zoom
    world,      \* what the tile server answers
    files,      \* the cache directory: tile path -> stored image
    req,        \* the arguments of the getAerialImage call in progress
    main,       \* where the caller's thread is in getAerialImage
    geo,        \* the locals of lines 31-60 (None before they are computed)
    futures,    \* idx -> [state, call]: the futures list, in submit order
    final_img,  \* the canvas (None before the first paste)
    result,     \* what getAerialImage returned or raised (None before)
    prev,       \* the last request that returned an image, and files then
    call        \* a _get_tile call made directly (None when there is none)

vars == << config, world, files, req, main, geo, futures, final_img, result,
           prev, call >>

(***************************************************************************)
(* Bounds of the exploration.                                              *)
(***************************************************************************)
MaxOverlap == 6     \* the first MaxOverlap tiles of a request interleave freely
MaxRetriesCfg == 3  \* max_retries is drawn from 1..MaxRetriesCfg
MaxRequests == 2    \* getAerialImage calls in one behaviour

Indices == IF geo = None THEN {} ELSE 0..(NumTiles(geo) - 1)

InState(s) == { i \in DOMAIN futures : futures[i].state = s }

UrlOf(i) ==
    LET t == TileAt(geo, i) IN [ x |-> t[1], y |-> t[2], z |-> config.zoom ]

\* session.get calls made for the request in progress
RequestGets ==
    LET RECURSIVE Sum(_)
        Sum(S) == IF S = {} THEN 0
                  ELSE LET i == CHOOSE j \in S : TRUE
                       IN  (IF futures[i].call = None THEN 0
                            ELSE futures[i].call.gets) + Sum(S \ { i })
    IN  Sum(DOMAIN futures)

(***************************************************************************)
(* getAerialImage: the caller's thread.                                    *)
(***************************************************************************)
\* lines 31-60: scale factors, margin, centre, bounding box, tile list
Plan ==
    /\ main = "idle"
    /\ geo' = Geometry(req, config.zoom)
    /\ main' = "planned"
    /\ UNCHANGED << config, world, files, req, futures, final_img, result,
                    prev, call >>

\* lines 62-72: every tile is submitted to the pool, in tiles order
Submit ==
    /\ main = "planned"
    /\ futures' = [ i \in Indices |-> [ state |-> "pending", call |-> None ] ]
    /\ final_img' = None
    /\ main' = "collect"
    /\ UNCHANGED << config, world, files, req, geo, result, prev, call >>

\* lines 74-78: as_completed yields a finished future; future.result()
\* re-raises what _future_wrapper raised, else the tile is pasted
Collect(i) ==
    /\ main = "collect"
    /\ futures[i].state = "finished"
    /\ futures' = [ futures EXCEPT ![i].state = "yielded" ]
    /\ IF IsRaise(futures[i].call.ret)
       THEN /\ main' = "unwind"
            /\ result' = futures[i].call.ret
            /\ UNCHANGED final_img
       ELSE /\ final_img' = PasteTile(final_img, futures[i].call.ret,
                                      TileAt(geo, i), BBox(geo))
            /\ UNCHANGED << main, result >>
    /\ UNCHANGED << config, world, files, req, geo, prev, call >>

ShutdownNoWait(fs) == TRUE

\* ThreadPoolExecutor.__exit__: shutdown(wait=True) joins the workers, which
\* run every work item still queued
ShutdownWait(fs) ==
    \A i \in DOMAIN fs : fs[i].state \in { "finished", "yielded" }

\* line 79: leaving the with block, normally or with the exception
ExitPool ==
    /\ \/ main = "unwind"
       \/ main = "collect" /\ \A i \in DOMAIN futures : futures[i].state = "yielded"
    /\ ShutdownWait(futures)
    /\ main' = IF main = "unwind" THEN "raised" ELSE "synth"
    /\ UNCHANGED << config, world, files, req, geo, futures, final_img,
                    result, prev, call >>

\* what rotate/crop/resize make of the canvas.  The resize to a non-positive
\* size raises; a crop box with d <= 0 is empty or inverted, which PIL
\* versions treat differently: either outcome
SynthResults ==
    LET img == [ image    |-> final_img,
                 crop_box |-> << geo.xcentre - geo.d, geo.ycentre - geo.d,
                                 geo.xcentre + geo.d, geo.ycentre + geo.d >>,
                 angle    |-> IF Abs(req.bearing) > 0 THEN req.bearing ELSE 0,
                 size     |-> << req.outw, req.outh >> ]
    IN  IF final_img = None THEN { Raise("AttributeError") }
        ELSE IF req.outw <= 0 \/ req.outh <= 0 THEN { Raise("ValueError") }
        ELSE IF geo.d <= 0 THEN { Raise("ValueError"), img }
        ELSE { img }

\* lines 80-91
Synthesize ==
    /\ main = "synth"
    /\ \E r \in SynthResults :
         /\ result' = r
         /\ main' = IF IsRaise(r) THEN "raised" ELSE "returned"
    /\ UNCHANGED << config, world, files, req, geo, futures, final_img,
                    prev, call >>

(***************************************************************************)
(* The pool's worker threads (ThreadPoolExecutor(5)): at most PoolWorkers  *)
(* work items run at once, taken from the queue in submit order.           *)
(***************************************************************************)
PoolHasRoomAlways(fs) == TRUE

PoolHasRoom(fs) ==
    Cardinality({ i \in DOMAIN fs : fs[i].state = "running" }) < PoolWorkers

\* the work queue is FIFO: the pending items are a suffix of the submit
\* order, and its first item is the next one a worker takes
IsQueueHead(i) ==
    /\ futures[i].state = "pending"
    /\ IF i = 0 THEN TRUE ELSE futures[i - 1].state # "pending"

\* Bound of the exploration: the first MaxOverlap work items are interleaved
\* in every way; each later one is taken when the pool is idle and
\* as_completed has yielded every finished future
MayOverlap(i) ==
    \/ i < MaxOverlap
    \/ /\ InState("running") = {}
       /\ main = "unwind" \/ InState("finished") = {}

\* a worker takes the next work item and runs _future_wrapper up to the
\* cache check of _get_tile
StartTile(i) ==
    /\ main \in { "collect", "unwind" }
    /\ IsQueueHead(i)
    /\ PoolHasRoom(futures)
    /\ MayOverlap(i)
    /\ futures' = [ futures EXCEPT ![i] =
                      [ state |-> "running",
                        call  |-> GetTileBegin(UrlOf(i), files,
                                               config.max_retries) ] ]
    /\ UNCHANGED << config, world, files, req, main, geo, final_img, result,
                    prev, call >>

\* the worker returns the cached image
ReturnHit(i) ==
    /\ futures[i].state = "running"
    /\ futures[i].call.pc = "hit"
    /\ futures' = [ futures EXCEPT ![i].state = "finished",
                                   ![i].call.pc = "done" ]
    /\ UNCHANGED << config, world, files, req, main, geo, final_img, result,
                    prev, call >>

\* the worker makes one session.get and, unless it is to be retried, ends
\* the call
FetchTile(i) ==
    /\ futures[i].state = "running"
    /\ futures[i].call.pc = "get"
    /\ \E res \in Responses(world, futures[i].call.url) :
         LET step == GetTileStep(futures[i].call, files, res)
         IN  /\ futures' = [ futures EXCEPT ![i] =
                   [ state |-> IF step.call.pc = "done" THEN "finished"
                               ELSE "running",
                     call  |-> step.call ] ]
             /\ files' = step.files
    /\ UNCHANGED << config, world, req, main, geo, final_img, result, prev,
                    call >>

(***************************************************************************)
(* The caller: after a request has ended it may make another.              *)
(***************************************************************************)
NoFutures == [ i \in {} |-> None ]

NextRequest(r) ==
    /\ main \in { "returned", "raised" }
    /\ prev.n + 1 < MaxRequests
    /\ prev' = IF main = "returned"
               THEN [ n |-> prev.n + 1, req |-> req, files |-> files ]
               ELSE [ prev EXCEPT !.n = @ + 1 ]
    /\ req' = r
    /\ main' = "idle"
    /\ geo' = None
    /\ futures' = NoFutures
    /\ final_img' = None
    /\ result' = None
    /\ UNCHANGED << config, world, files, call >>

(***************************************************************************)
(* _get_tile called directly, one call at a time.                          *)
(***************************************************************************)
TileCall(u) ==
    /\ IF call = None THEN TRUE ELSE call.pc = "done"
    /\ call' = GetTileBegin(u, files, config.max_retries)
    /\ UNCHANGED << config, world, files, req, main, geo, futures, final_img,
                    result, prev >>

TileReturnHit ==
    /\ call # None
    /\ call.pc = "hit"
    /\ call' = [ call EXCEPT !.pc = "done" ]
    /\ UNCHANGED << config, world, files, req, main, geo, futures, final_img,
                    result, prev >>

TileFetch ==
    /\ call # None
    /\ call.pc = "get"
    /\ \E res \in Responses(world, call.url) :
         LET step == GetTileStep(call, files, res)
         IN  /\ call' = step.call
             /\ files' = step.files
    /\ UNCHANGED << config, world, req, main, geo, futures, final_img, result,
                    prev >>

(***************************************************************************)
(* Inputs.                                                                 *)
(***************************************************************************)
NoFiles == [ k \in {} |-> None ]

Request(lat, lon, bearing, altitude, fov, outw, outh) ==
    [ lat |-> lat, lon |-> lon, bearing |-> bearing, altitude |-> altitude,
      fov |-> fov, outw |-> outw, outh |-> outh ]

\* a valid request over the equator at longitude 0: 100 tiles
ReqEquator == Request(0, 134217728, 0, 10, 90, 512, 512)

\* a valid request one tile east of longitude -180: the bounding box
\* reaches x < 0
ReqEdge == Request(0, 256, 30, 10, 90, 512, 512)

\* the same, one tile further east
ReqEdgeEast == Request(0, 512, 30, 10, 90, 512, 512)

\* malformed camera parameters
ReqBadAltitude == Request(0, 256, 0, -10, 90, 512, 512)

ReqBadOutput == Request(0, 256, 0, 10, 90, 0, 512)

\* altitude <= 0, fov <= 0 or >= 180, a non-positive output dimension, or a
\* latitude outside the Mercator projection's validity
Malformed(r) ==
    \/ r.altitude <= 0
    \/ r.fov <= 0 \/ r.fov >= 180
    \/ r.outw <= 0 \/ r.outh <= 0
    \/ r.lat < -85 \/ r.lat > 85

CentreTile(r) ==
    LET g == Geometry(r, DefaultZoom)
    IN  << TruncDiv(g.xtile, tile_size), TruncDiv(g.ytile, tile_size) >>

FirstTile(r) == TileAt(Geometry(r, DefaultZoom), 0)

AllTiles(r) ==
    LET g == Geometry(r, DefaultZoom)
    IN  { TileAt(g, i) : i \in 0..(NumTiles(g) - 1) }

World(default, special, skind, big) ==
    [ default |-> default, special |-> special, skind |-> skind, big |-> big ]

InitRequest(r, w, mr) ==
    /\ config = [ max_retries |-> mr, zoom |-> DefaultZoom ]
    /\ world = w
    /\ files = NoFiles
    /\ req = r
    /\ main = "idle"
    /\ geo = None
    /\ futures = NoFutures
    /\ final_img = None
    /\ result = None
    /\ prev = [ n |-> 0, req |-> None, files |-> NoFiles ]
    /\ call = None

RequestStep ==
    \/ Plan
    \/ Submit
    \/ \E i \in DOMAIN futures : StartTile(i)
    \/ \E i \in DOMAIN futures : ReturnHit(i)
    \/ \E i \in DOMAIN futures : FetchTile(i)
    \/ \E i \in DOMAIN futures : Collect(i)
    \/ ExitPool
    \/ Synthesize

(***************************************************************************)
(* Spec: one request, against servers that fail in different ways.         *)
(***************************************************************************)
NegativeTiles(r) == { t \in AllTiles(r) : t[1] < 0 }

Scenarios ==
    { << ReqEdge, World("ok", {}, "ok", {}) >>,
      << ReqEdge, World("ok", NegativeTiles(ReqEdge), "notfound", {}) >>,
      << ReqEquator, World("notfound", {}, "ok", {}) >>,
      << ReqEquator, World("unreachable", {}, "ok", {}) >>,
      << ReqEquator, World("ok", { CentreTile(ReqEquator) }, "unreachable", {}) >>,
      << ReqEquator, World("ok", { CentreTile(ReqEquator) }, "error", {}) >>,
      << ReqEquator, World("ok", { FirstTile(ReqEquator) }, "empty", {}) >>,
      << ReqEdge, World("ok", {}, "ok", { FirstTile(ReqEdge) }) >>,
      << ReqEquator, World("ok", {}, "ok", AllTiles(ReqEquator)) >>,
      << ReqBadAltitude, World("ok", {}, "ok", {}) >>,
      << ReqBadOutput, World("ok", {}, "ok", {}) >> }

Init == \E s \in Scenarios : InitRequest(s[1], s[2], DefaultMaxRetries)

Next == RequestStep

Spec == Init /\ [][Next]_vars

(***************************************************************************)
(* SpecRepeat: a request against a server that has every tile, followed by *)
(* the same request again or by one that overlaps it.                      *)
(***************************************************************************)
InitRepeat == InitRequest(ReqEdge, World("ok", {}, "ok", {}), DefaultMaxRetries)

NextRepeat == RequestStep \/ \E r \in { ReqEdge, ReqEdgeEast } : NextRequest(r)

SpecRepeat == InitRepeat /\ [][NextRepeat]_vars

(***************************************************************************)
(* SpecTile: _get_tile called directly, against a server that may answer   *)
(* each GET in any way.                                                    *)
(***************************************************************************)
TileUrls ==
    { [ x |-> t[1], y |-> t[2], z |-> DefaultZoom ] :
        t \in { << 1, 23 >>, << 12, 3 >>, << -1, 5 >>, << 1, 5 >> } }
    \cup { [ x |-> 1, y |-> 23, z |-> DefaultZoom, tpl |-> b ] :
              b \in { BaseUrlSpaced, BaseUrlTrailing } }

InitTile ==
    /\ \E mr \in 1..MaxRetriesCfg :
         config = [ max_retries |-> mr, zoom |-> DefaultZoom ]
    /\ world = Flaky
    /\ files = NoFiles
    /\ req = None
    /\ main = "idle"
    /\ geo = None
    /\ futures = NoFutures
    /\ final_img = None
    /\ result = None
    /\ prev = [ n |-> 0, req |-> None, files |-> NoFiles ]
    /\ call = None

NextTile ==
    \/ \E u \in TileUrls : TileCall(u)
    \/ TileReturnHit
    \/ TileFetch

SpecTile == InitTile /\ [][NextTile]_vars

(***************************************************************************)
(* SpecTileLive: the same calls for every max_retries from 0, with the     *)
(* thread that runs _get_tile always making its next step: session.get     *)
(* returns or raises within http_timeout, and nothing else blocks.         *)
(***************************************************************************)
InitTileLive ==
    /\ \E mr \in 0..MaxRetriesCfg :
         config = [ max_retries |-> mr, zoom |-> DefaultZoom ]
    /\ world = Flaky
    /\ files = NoFiles
    /\ req = None
    /\ main = "idle"
    /\ geo = None
    /\ futures = NoFutures
    /\ final_img = None
    /\ result = None
    /\ prev = [ n |-> 0, req |-> None, files |-> NoFiles ]
    /\ call = None

SpecTileLive ==
    /\ InitTileLive
    /\ [][NextTile]_vars
    /\ WF_vars(TileReturnHit)
    /\ WF_vars(TileFetch)

(***************************************************************************)
(* SpecRace: two threads (of two concurrent getAerialImage requests on the *)
(* same cache directory) call _get_tile at the same time.  Here the steps  *)
(* of _get_tile are those another thread can tell apart: img.save(path)    *)
(* first creates or truncates the file and later has written it all, and   *)
(* a file that is being written reads as Partial.  futures[i].call is the  *)
(* call of thread i.  Writers of different images whose saves overlap      *)
(* write through separate file offsets: the file may end up as the last    *)
(* writer's image or as a mix of both.                                     *)
(***************************************************************************)
Partial(mixed) == [ partial |-> TRUE, mixed |-> mixed ]

Corrupt == [ corrupt |-> TRUE ]

IsPartial(content) == "partial" \in DOMAIN content

Threads == { 0, 1 }

\* the other threads that have the file of u open for writing
OtherWriters(i, u) ==
    { j \in Threads \ { i } :
        IF futures[j].call = None THEN FALSE
        ELSE /\ futures[j].call.pc = "save"
             /\ TilePath(futures[j].call.url) = TilePath(u) }

\* lines 131-136 in thread i
RaceCall(i, u) ==
    /\ IF futures[i].call = None THEN TRUE ELSE futures[i].call.pc = "done"
    /\ futures' = [ futures EXCEPT ![i].call =
                      GetTileBegin(u, files, config.max_retries) ]
    /\ UNCHANGED << config, world, files, req, main, geo, final_img, result,
                    prev, call >>

\* line 134: Image.open of a file that is still being written raises or
\* gives the truncated image
RaceReturnHit(i) ==
    /\ futures[i].call # None
    /\ futures[i].call.pc = "hit"
    /\ \E r \in IF IsPartial(futures[i].call.ret)
                 THEN { futures[i].call.ret, Raise("UnidentifiedImageError") }
                 ELSE { futures[i].call.ret } :
         futures' = [ futures EXCEPT ![i].call.pc = "done", ![i].call.ret = r ]
    /\ UNCHANGED << config, world, files, req, main, geo, final_img, result,
                    prev, call >>

\* lines 137-153: one session.get; when it brings an image, img.save opens
\* the file
RaceFetch(i) ==
    /\ futures[i].call # None
    /\ futures[i].call.pc = "get"
    /\ \E res \in Responses(world, futures[i].call.url) :
         LET c    == futures[i].call
             step == GetTileStep(c, files, res)
         IN  IF step.call.pc = "done" /\ ~IsRaise(step.call.ret)
             THEN /\ futures' = [ futures EXCEPT ![i].call =
                                    [ step.call EXCEPT !.pc = "save" ] ]
                  /\ files' = SaveTile(files, c.url,
                        Partial(\/ \E j \in OtherWriters(i, c.url) :
                                     futures[j].call.ret # step.call.ret
                                \/ /\ OtherWriters(i, c.url) # {}
                                   /\ files[TilePath(c.url)].mixed))
             ELSE /\ futures' = [ futures EXCEPT ![i].call = step.call ]
                  /\ files' = files
    /\ UNCHANGED << config, world, req, main, geo, final_img, result, prev,
                    call >>

\* lines 153-154: img.save has written the file; the call returns img
RaceSaved(i) ==
    /\ futures[i].call # None
    /\ futures[i].call.pc = "save"
    /\ LET c == futures[i].call
           f == files[TilePath(c.url)]
       IN  \E content \in IF OtherWriters(i, c.url) # {} THEN { f }
                           ELSE IF f.mixed THEN { c.ret, Corrupt }
                           ELSE { c.ret } :
               files' = SaveTile(files, c.url, content)
    /\ futures' = [ futures EXCEPT ![i].call.pc = "done" ]
    /\ UNCHANGED << config, world, req, main, geo, final_img, result, prev,
                    call >>

RaceUrls ==
    { [ x |-> t[1], y |-> t[2], z |-> DefaultZoom ] :
        t \in { << 1, 23 >>, << 12, 3 >>, << 1, 5 >> } }

InitRace ==
    /\ config = [ max_retries |-> DefaultMaxRetries, zoom |-> DefaultZoom ]
    /\ world = World("ok", {}, "ok", {})
    /\ files = NoFiles
    /\ req = None
    /\ main = "idle"
    /\ geo = None
    /\ futures = [ i \in Threads |-> [ state |-> "running", call |-> None ] ]
    /\ final_img = None
    /\ result = None
    /\ prev = [ n |-> 0, req |-> None, files |-> NoFiles ]
    /\ call = None

NextRace ==
    \/ \E i \in Threads, u \in RaceUrls : RaceCall(i, u)
    \/ \E i \in Threads : RaceReturnHit(i)
    \/ \E i \in Threads : RaceFetch(i)
    \/ \E i \in Threads : RaceSaved(i)

SpecRace == InitRace /\ [][NextRace]_vars

(***************************************************************************)
(* SpecGeom: lines 31-60 alone, over a range of camera parameters.         *)
(***************************************************************************)
GeomRequests ==
    { Request(lat, lon, 0, altitude, fov, 512, 512) :
        lat \in { 0, 60, 180 }, lon \in { -300, 256, 134217900 },
        altitude \in { -100, 0, 10, 100, 150, 200, 400 },
        fov \in { -90, 0, 60, 90, 270 } }

InitGeom ==
    \E r \in GeomRequests :
        InitRequest(r, World("ok", {}, "ok", {}), DefaultMaxRetries)

NextGeom == Plan

SpecGeom == InitGeom /\ [][NextGeom]_vars

(***************************************************************************)
(* SpecGrid: lines 31-72, the geometry and the submission of the tiles,    *)
(* over the same camera parameters.                                        *)
(***************************************************************************)
NextGrid == Plan \/ Submit

SpecGrid == InitGeom /\ [][NextGrid]_vars

(***************************************************************************)
(* Claims.                                                                 *)
(***************************************************************************)
Ended == main \in { "returned", "raised" }

CallOf(i) == futures[i].call

\* tile i's fetch has ended with an image
TileOk(i) == CallOf(i) # None /\ CallOf(i).pc = "done" /\ ~IsRaise(CallOf(i).ret)

\* tile i's fetch has ended with the not-found error (404 or empty body)
TileNotFound(i) ==
    CallOf(i) # None /\ CallOf(i).pc = "done" /\ CallOf(i).ret = Raise("ValueError")

\* tile i's fetch has ended with an error
TileFailed(i) == CallOf(i) # None /\ CallOf(i).pc = "done" /\ IsRaise(CallOf(i).ret)

\* the block of the canvas where tile i belongs, for tile_size tiles
RegionOf(i) ==
    LET t == TileAt(geo, i) IN << t[1] - geo.xmin, t[2] - geo.ymin >>

\* C1: when some tile fetches end not-found and at least one other tile
\* succeeds, the request returns an image whose regions for the failed tiles
\* are blank; the failure does not reach the caller.
C1_NotFoundAbsorbed ==
    ( /\ Ended
      /\ \E i \in DOMAIN futures : TileNotFound(i)
      /\ \E i \in DOMAIN futures : TileOk(i)
      /\ \A i \in DOMAIN futures : TileOk(i) \/ TileNotFound(i) )
    => /\ main = "returned"
       /\ ~IsRaise(result)
       /\ \A i \in DOMAIN futures :
            TileNotFound(i) => final_img.px[RegionOf(i)] = Blank

\* C2: when every tile fetch of a request fails, the request ends in the
\* dedicated all-tiles-failed failure and never returns an image.
C2_AllTilesFailedError ==
    ( /\ Ended
      /\ DOMAIN futures # {}
      /\ \A i \in DOMAIN futures : TileFailed(i) )
    => /\ main = "raised"
       /\ result = Raise("AllTilesFailedError")

\* C3: a tile whose cache file existed when the last successful request
\* returned is resolved to that stored image without any HTTP GET; and a
\* repeat of that request ends with zero GETs and the cache unchanged.
C3_CacheHitDeterminism ==
    /\ \A i \in DOMAIN futures :
         ( /\ CallOf(i) # None
           /\ TilePath(UrlOf(i)) \in DOMAIN prev.files )
         => /\ CallOf(i).gets = 0
            /\ CallOf(i).pc # "get"
            /\ CallOf(i).ret = prev.files[TilePath(UrlOf(i))]
    /\ ( prev.req = req /\ main = "returned" )
         => /\ RequestGets = 0
            /\ files = prev.files
            /\ \A i \in DOMAIN futures : TileOk(i)

C3_RepeatServedFromCache ==
    /\ main = "returned"
    /\ prev.req = req
    /\ RequestGets = 0
    /\ DOMAIN futures # {}

\* C4: on a cache miss where every GET raises a transport exception, a call
\* with max_retries = N >= 1 makes at most N+1 GETs and then ends with the
\* transport exception; a GET that returns a response ends the retry loop.
C4_RetryBound ==
    call # None =>
        /\ call.gets <= config.max_retries + 1
        /\ ( call.pc = "get" => call.res = None /\ call.gets <= config.max_retries )
        /\ ( call.pc = "done" /\ call.gets > 0 /\ call.res = None )
             => call.ret = Raise("ConnectionError")
        /\ call.res # None => call.pc = "done"

C4_RetriedThenRaised ==
    /\ call # None
    /\ config.max_retries >= 2
    /\ call.pc = "done"
    /\ call.ret = Raise("ConnectionError")
    /\ call.gets >= 2

\* C5: a GET answered with status 404 or with an empty body ends the call
\* with its error at once, that GET being the call's last, and leaves the
\* cache directory as it was.
C5_NotFoundNotRetried ==
    [][ ( /\ call # None
          /\ call' # None
          /\ call.pc = "get"
          /\ call'.res # None
          /\ call'.res.status = 404 \/ call'.res.content = None )
        => /\ call'.pc = "done"
           /\ call'.ret = Raise("ValueError")
           /\ call'.gets = call.gets + 1
           /\ files' = files ]_vars

C5_EmptyBodyAfterRetry ==
    /\ call # None
    /\ call.pc = "done"
    /\ call.ret = Raise("ValueError")
    /\ call.res.status = 200
    /\ call.gets = 2

\* C6: a request with malformed camera parameters is rejected with the
\* invalid-geometry failure before any I/O: no fetch is dispatched, no GET
\* is issued and the cache directory is not written.
C6_RejectedBeforeIO ==
    ( Malformed(req) /\ main # "idle" )
    => /\ main = "raised"
       /\ result = Raise("InvalidGeometryError")
       /\ futures = NoFutures
       /\ files = prev.files

\* C7: at every moment at most 5 tile fetches of a request are running,
\* cache hits included; the other tiles wait in the queue.
C7_AtMostFiveRunning == Cardinality(InState("running")) <= 5

C7_FiveRunningOthersWait ==
    /\ Cardinality(InState("running")) = 5
    /\ InState("pending") # {}
    /\ \E i \in InState("running") : CallOf(i).pc = "hit"

\* C8: getAerialImage neither starts rotate/crop/resize nor returns or
\* raises while a fetch it dispatched is pending or running; every
\* dispatched fetch has run to completion by then.
C8_FanIn ==
    main \in { "synth", "returned", "raised" }
    => /\ DOMAIN futures = Indices
       /\ \A i \in DOMAIN futures :
            /\ futures[i].state \in { "finished", "yielded" }
            /\ CallOf(i).pc = "done"

C8_SiblingsRanAfterFailure ==
    /\ main = "raised"
    /\ \E i \in DOMAIN futures : futures[i].state = "finished" /\ TileOk(i)

\* the images as_completed has yielded so far
Yielded == { i \in DOMAIN futures : futures[i].state = "yielded" /\ TileOk(i) }

UniformTiles == \A i, j \in Yielded : CallOf(i).ret.size = CallOf(j).ret.size

\* the canvas that holds, for every yielded tile, that tile's image in the
\* region of its own (x, y), and nothing elsewhere
ExpectedCanvas ==
    LET size == CallOf(CHOOSE i \in Yielded : TRUE).ret.size
        n    == size \div tile_size
        ny   == geo.ymax - geo.ymin
        w    == size * (geo.xmax - geo.xmin)
        h    == size * (geo.ymax - geo.ymin)
    IN  [ w |-> w, h |-> h,
          px |-> [ c \in (0..(w \div tile_size) - 1) \X (0..(h \div tile_size) - 1) |->
                     LET i == (c[1] \div n) * ny + (c[2] \div n)
                     IN  IF i \in Yielded
                         THEN [ src |-> CallOf(i).ret.src,
                                bx  |-> c[1] % n, by |-> c[2] % n ]
                         ELSE Blank ] ]

\* the canvas made by pasting the tiles' images in the order of the tiles:
\* Image.new takes its size from tile 0, and a block shows the last tile, in
\* that order, whose pasted image covers it
InOrderCanvas ==
    LET ny   == geo.ymax - geo.ymin
        w    == CallOf(0).ret.size * (geo.xmax - geo.xmin)
        h    == CallOf(0).ret.size * (geo.ymax - geo.ymin)
        N(i) == CallOf(i).ret.size \div tile_size
        X(i) == N(i) * (i \div ny)
        Y(i) == N(i) * (i % ny)
        Covers(i, c) ==
            /\ c[1] >= X(i) /\ c[1] < X(i) + N(i)
            /\ c[2] >= Y(i) /\ c[2] < Y(i) + N(i)
    IN  [ w |-> w, h |-> h,
          px |-> [ c \in (0..(w \div tile_size) - 1) \X (0..(h \div tile_size) - 1) |->
                     LET over == { i \in DOMAIN futures : Covers(i, c) }
                     IN  IF over = {} THEN Blank
                         ELSE LET i == CHOOSE k \in over : \A m \in over : m <= k
                              IN  [ src |-> CallOf(i).ret.src,
                                    bx  |-> c[1] - X(i), by |-> c[2] - Y(i) ] ] ]

\* C9 as stated: whatever the tile results, every completion order yields
\* the canvas that the order of the tiles yields.
C9_AnyOrderSameCanvas ==
    main \in { "synth", "returned" } => final_img = InOrderCanvas

\* C9, amended: when the tile results all have the same pixel size, the
\* canvas after any completions in any order has the dimensions that size
\* gives and holds each yielded tile in the region of its own (x, y).
C9_OrderIndependentWhenUniform ==
    ( Yielded # {} /\ UniformTiles ) => final_img = ExpectedCanvas

C9_OutOfOrderCompletion ==
    /\ main = "collect"
    /\ UniformTiles
    /\ \E i, j \in DOMAIN futures :
         i < j /\ futures[j].state = "yielded" /\ futures[i].state = "running"

\* C10: extra_tiles is max(5, ceil((ceil(ratio) - 1) / 2)), hence at least
\* 5 also when the raw margin is zero or negative.
C10_ExtraTilesAtLeastFive ==
    geo # None =>
        LET num == IF geo.ratio[2] < 0 THEN -geo.ratio[1] ELSE geo.ratio[1]
            den == Abs(geo.ratio[2])
            c   == CHOOSE k \in -100..100 : k * den >= num /\ (k - 1) * den < num
            raw == CHOOSE e \in -100..100 : 2 * e >= c - 1 /\ 2 * (e - 1) < c - 1
        IN  /\ geo.extra_tiles = Max(5, raw)
            /\ geo.extra_tiles >= 5

C10_NegativeRawMargin ==
    /\ geo # None
    /\ RawExtraTiles(geo.ratio) < 0
    /\ geo.extra_tiles = 5

\* C11: no step of any _get_tile call, successful or failed, removes a cache
\* file, and a call that ends with the image of a network fetch leaves a file
\* under its URL's cache key.
C11_CacheOnlyGrows ==
    [][ /\ DOMAIN files \subseteq DOMAIN files'
        /\ ( /\ call # None
             /\ call' # None
             /\ call.pc = "get"
             /\ call'.pc = "done"
             /\ ~IsRaise(call'.ret) )
           => TilePath(call'.url) \in DOMAIN files' ]_vars

C11_FailedCallKeepsFiles ==
    /\ call # None
    /\ call.pc = "done"
    /\ call.gets > 0
    /\ IsRaise(call.ret)
    /\ TilePath(call.url) \notin DOMAIN files
    /\ files # NoFiles

\* C19: a cache file is written only in a step whose GET returned a status
\* below 400 other than 404 with a non-empty body; a transport failure, a
\* 404, an empty body or an HTTP error status leaves the cache directory
\* unchanged, and the error status ends the call with raise_for_status's
\* error after that one GET.
C19_OnlySuccessfulBodiesCached ==
    [][ ( /\ call # None
          /\ call' # None
          /\ call.pc = "get" )
        => /\ files' # files
              => /\ call'.res # None
                 /\ ~call'.res.exc
                 /\ call'.res.status < 400
                 /\ call'.res.content # None
                 /\ files' = SaveTile(files, call.url, call'.res.content)
           /\ ( \/ call'.res = None
                \/ call'.res.status >= 400
                \/ call'.res.content = None )
              => files' = files
           /\ ( call'.res # None /\ call'.res.status >= 400 /\ call'.res.status # 404 )
              => /\ call'.pc = "done"
                 /\ call'.ret = Raise("HTTPError")
                 /\ call'.gets = call.gets + 1 ]_vars

C19_ErrorStatusWithCacheFilled ==
    /\ call # None
    /\ call.pc = "done"
    /\ call.ret = Raise("HTTPError")
    /\ call.gets = 1
    /\ files # NoFiles

\* the tiles submitted to the pool, one per future
Dispatched == { TileAt(geo, i) : i \in DOMAIN futures }

DispatchedOnce ==
    \A i, j \in DOMAIN futures : TileAt(geo, i) = TileAt(geo, j) => i = j

CanvasW == tile_size * (geo.xmax - geo.xmin)

CanvasH == tile_size * (geo.ymax - geo.ymin)

\* C13: for every valid request the crop square of half-width d around the
\* camera's pixel centre, rotated by any bearing, lies inside the canvas:
\* centre - d*sqrt(2) >= 0 and centre + d*sqrt(2) <= canvas size on both axes.
\* (valid: not Malformed, and a longitude not west of -180)
C13_RotatedCropInsideCanvas ==
    ( geo # None /\ ~Malformed(req) /\ req.lon >= 0 ) =>
        /\ geo.xcentre * Sqrt2Den - geo.d * Sqrt2Num >= 0
        /\ geo.ycentre * Sqrt2Den - geo.d * Sqrt2Num >= 0
        /\ geo.xcentre * Sqrt2Den + geo.d * Sqrt2Num <= CanvasW * Sqrt2Den
        /\ geo.ycentre * Sqrt2Den + geo.d * Sqrt2Num <= CanvasH * Sqrt2Den

\* the blocks of the canvas that tile i owns when the tiles are size pixels
\* wide and high: the square at offset ((x - xmin) * size, (y - ymin) * size)
TileRegion(i, size) ==
    LET t == TileAt(geo, i)
        n == size \div tile_size
    IN  ( ((t[1] - geo.xmin) * n) .. ((t[1] - geo.xmin) * n + n - 1) )
        \X
        ( ((t[2] - geo.ymin) * n) .. ((t[2] - geo.ymin) * n + n - 1) )

\* the paste geometry for tiles that are size pixels wide and high.  The
\* regions all hold n*n blocks, so they are pairwise disjoint exactly when
\* their union holds NumTiles * n*n blocks
PasteGeometry(size) ==
    LET n == size \div tile_size
    IN  /\ \A i \in Yielded : CallOf(i).ret.size = size
        /\ final_img.w = size * (geo.xmax - geo.xmin)
        /\ final_img.h = size * (geo.ymax - geo.ymin)
        /\ \A i \in Yielded : \A c \in TileRegion(i, size) :
             final_img.px[c] =
                 [ src |-> CallOf(i).ret.src,
                   bx  |-> c[1] - (TileAt(geo, i)[1] - geo.xmin) * n,
                   by  |-> c[2] - (TileAt(geo, i)[2] - geo.ymin) * n ]
        /\ UNION { TileRegion(i, size) : i \in Indices } = DOMAIN final_img.px
        /\ Cardinality(DOMAIN final_img.px) = NumTiles(geo) * n * n

\* C14: the canvas is allocated once, by the first paste, and keeps its
\* dimensions; with tiles of one size it is size * columns by size * rows,
\* every pasted tile (x, y) is at offset ((x - xmin) * size, (y - ymin) *
\* size), and the tiles' regions are inside the canvas, pairwise disjoint
\* and together the whole canvas.
C14_PasteGeometry ==
    [][ ( final_img' # final_img /\ final_img' # None ) =>
          /\ final_img # None =>
               /\ final_img'.w = final_img.w
               /\ final_img'.h = final_img.h
               /\ DOMAIN final_img'.px = DOMAIN final_img.px
          /\ UniformTiles' =>
               \E size \in { tile_size, 2 * tile_size } : PasteGeometry(size)' ]_vars

C14_WholeCanvasPasted ==
    /\ main = "synth"
    /\ UniformTiles
    /\ Yielded = Indices
    /\ \A c \in DOMAIN final_img.px : final_img.px[c] # Blank

\* the step in which a _get_tile call begins: the cache check
BeginsCall == call' # None /\ call'.gets = 0 /\ call'.pc \in { "hit", "get" }

\* the letters and digits of a sequence of characters
Alnum(s) == SelectSeq(s, IsAlnum)

\* C16 as stated: the cache key is the URL's letters and digits, so a call
\* for a URL whose letters and digits are those of a stored file's URL is
\* served that file without any GET.
C16_KeyIsLettersAndDigits ==
    [][ BeginsCall =>
          /\ TilePath(call'.url) = Alnum(UrlChars(call'.url))
          /\ ( \E k \in DOMAIN files : Alnum(k) = Alnum(UrlChars(call'.url)) )
             => /\ call'.pc = "hit"
                /\ \E k \in DOMAIN files :
                     /\ Alnum(k) = Alnum(UrlChars(call'.url))
                     /\ call'.ret = files[k] ]_vars

\* C16, amended: the cache key is the URL's letters, digits and spaces with
\* the trailing spaces removed; a call for a URL whose key is that of a
\* stored file is served that file without any GET, whichever URL the file
\* was fetched for, and a call for a URL with another key is not.
C16_KeyIsLettersDigitsSpaces ==
    [][ BeginsCall =>
          LET url  == UrlChars(call'.url)
              kept == SelectSeq(url, LAMBDA c : IsAlnum(c) \/ c = " ")
              key  == CHOOSE k \in { SubSeq(kept, 1, n) : n \in 0..Len(kept) } :
                        /\ k = << >> \/ k[Len(k)] # " "
                        /\ \A j \in (Len(k) + 1)..Len(kept) : kept[j] = " "
          IN  /\ TilePath(call'.url) = key
              /\ key \in DOMAIN files
                 => call'.pc = "hit" /\ call'.ret = files[key]
              /\ key \notin DOMAIN files => call'.pc = "get" ]_vars

C16_OtherUrlsImageServed ==
    /\ call # None
    /\ call.pc = "done"
    /\ call.gets = 0
    /\ call.ret.src # << call.url.x, call.url.y >>

\* C18: the tiles of one request have pairwise distinct cache keys, also
\* when the bounding box reaches negative tile indices, and every tile's
\* fetch resolves to the image of its own tile, which is what its canvas
\* region shows.
C18_OwnTileInEveryRegion ==
    /\ main = "planned" =>
         \A i, j \in Indices :
             i # j => TilePath(UrlOf(i)) # TilePath(UrlOf(j))
    /\ \A i \in DOMAIN futures :
         TileOk(i) => CallOf(i).ret.src = TileAt(geo, i)
    /\ \A i \in Yielded :
         UniformTiles =>
             \A c \in TileRegion(i, CallOf(i).ret.size) :
                 final_img.px[c].src = TileAt(geo, i)

\* a _get_tile call is in progress
InCall == IF call = None THEN FALSE ELSE call.pc # "done"

\* C17: every _get_tile call ends, by returning or raising, for every
\* max_retries >= 0, also when every GET fails.
C17_GetTileTerminates == InCall ~> ~InCall

\* C15: with concurrent _get_tile calls for one cache key, every cache hit
\* returns the complete image of one writer's save, never a partially
\* written file, and once no save is in progress every cache file is the
\* complete image of one writer.
C15_NoPartialReads ==
    /\ \A i \in DOMAIN futures :
         ( /\ CallOf(i) # None
           /\ CallOf(i).pc = "done"
           /\ CallOf(i).gets = 0 )
         => IsImage(CallOf(i).ret)
    /\ ( \A i \in DOMAIN futures :
           IF CallOf(i) = None THEN TRUE ELSE CallOf(i).pc # "save" )
       => \A k \in DOMAIN files : IsImage(files[k])

=============================================================================
